---- MODULE Spec2Model ----
(***************************************************************************)
(* Model of the sails-db2 Waterline adapter (src/index.js): the connection *)
(* registry, the open-then-query orchestration of every public operation,  *)
(* the SQL-state based error recovery of define and drop, and the SQL      *)
(* text that find, create, update and destroy build.                       *)
(*                                                                         *)
(* A text (SQL, a value) is a sequence of string chunks; a value is a      *)
(* sequence of one-character chunks, so that quoting is observable.        *)
(***************************************************************************)
EXTENDS Integers, Sequences, FiniteSets, TLC

\* ------------------------------------------------------------------ bounds
\* connection objects ever created, asynchronous operations ever called
MaxRegs == 2
MaxOpens == 2

\* ---------------------------------------------------------- text helpers
Q == "'"

RECURSIVE Join(_, _)
\* Array.prototype.join over texts
Join(parts, sep) ==
    IF Len(parts) = 0 THEN <<>>
    ELSE IF Len(parts) = 1 THEN parts[1]
    ELSE parts[1] \o sep \o Join(Tail(parts), sep)

\* index of the first chunk of w equal to c, 0 when there is none
FirstIndex(w, c) ==
    IF \E i \in 1..Len(w) : w[i] = c
    THEN CHOOSE i \in 1..Len(w) : w[i] = c /\ \A j \in 1..(i - 1) : w[j] # c
    ELSE 0

\* String.prototype.replace with a string pattern: the first occurrence only
ReplaceFirst(w, c, by) ==
    LET i == FirstIndex(w, c)
    IN  IF i = 0 THEN w
        ELSE SubSeq(w, 1, i - 1) \o by \o SubSeq(w, i + 1, Len(w))

\* me.escape
escape(word) == <<Q>> \o ReplaceFirst(word, Q, <<Q, Q>>) \o <<Q>>

\* "'" + param + "'" as create and update inline a value
InlineLiteral(param) == <<Q>> \o param \o <<Q>>

\* ----------------------------------------------------------- type mapper
\* me.typeMap
typeMap(native) ==
    CASE native \in {"TIMESTMP", "TIME"} -> "time"
      [] native = "DATE" -> "date"
      [] native \in {"BINARY", "VARBINARY"} -> "binary"
      [] native \in {"CHAR", "VARCHAR", "GRAPHIC", "VARGRAPHIC"} -> "string"
      [] native \in {"SMALLINT", "INTEGER", "BIGINT"} -> "integer"
      [] native \in {"DECIMAL", "DECFLOAT", "REAL", "DOUBLE"} -> "float"
      [] native \in {"CLOB", "BLOB", "DBCLOB", "XML"} -> "text"
      [] OTHER -> "undefined"

\* me.getSqlType
getSqlType(attrType) ==
    CASE attrType = "string" -> "VARCHAR"
      [] attrType = "integer" -> "INTEGER"
      [] attrType = "float" -> "DOUBLE"
      [] attrType = "text" -> "BLOB"
      [] attrType = "binary" -> "VARBINARY"
      [] attrType = "time" -> "TIMESTMP"
      [] attrType = "date" -> "DATE"
      [] OTHER -> ""

\* ------------------------------------------------------------ collections
\* An attribute definition is an ordered map: a sequence of attributes.
Attr(n, t, pk, ai, len) ==
    [name |-> n, type |-> t, primaryKey |-> pk, autoIncrement |-> ai, length |-> len]

DefA == << Attr("id", "integer", TRUE, TRUE, 0), Attr("name", "string", FALSE, FALSE, 0) >>
DefB == << Attr("name", "string", TRUE, FALSE, 0), Attr("note", "string", FALSE, FALSE, 40),
           Attr("id", "integer", FALSE, TRUE, 0) >>

Definitions == {DefA, DefB}
CollectionNames == {"T"}
RelationTables == {"R1", "R2"}
Tables == CollectionNames \cup RelationTables

\* the collections object handed to registerConnection
CollectionsOf(def) == [c \in CollectionNames |-> [tableName |-> c, definition |-> def]]
CollectionSets == {CollectionsOf(DefA)}

\* collection.definition.hasOwnProperty(column)
hasOwnProperty(definition, column) == \E i \in 1..Len(definition) : definition[i].name = column

AttrOf(definition, column) ==
    definition[CHOOSE i \in 1..Len(definition) : definition[i].name = column]

\* me.getSelectAttributes
getSelectAttributes(collection) ==
    Join([i \in 1..Len(collection.definition) |-> <<collection.definition[i].name>>], <<",">>)

\* ---------------------------------------------------------- query builder
\* A where, sort or values map is an ordered map: a sequence of
\* [column, value] entries with distinct columns (insertion order, as _.each
\* visits them).  A limit is undefined, a number or a string.
NoLimit == [k |-> "undefined", n |-> 0, s |-> <<>>]
NumLimit(n) == [k |-> "number", n |-> n, s |-> <<>>]
StrLimit(s) == [k |-> "string", n |-> 0, s |-> s]

\* _.isEmpty: true for undefined and for every number, length = 0 for a string
isEmpty(v) ==
    CASE v.k = "undefined" -> TRUE
      [] v.k = "number" -> TRUE
      [] v.k = "string" -> Len(v.s) = 0

\* '' + options.limit
LimitText(v) ==
    CASE v.k = "undefined" -> <<"undefined">>
      [] v.k = "number" -> <<ToString(v.n)>>
      [] v.k = "string" -> v.s

Columns(entries) == [i \in 1..Len(entries) |-> entries[i].column]
ValuesOf(entries) == [i \in 1..Len(entries) |-> entries[i].value]

\* the entries _.each keeps under collection.definition.hasOwnProperty(column)
KeptEntries(collection, entries) ==
    LET Keep(e) == hasOwnProperty(collection.definition, e.column)
    IN  SelectSeq(entries, Keep)

\* the where clause built from every where entry, the hasOwnProperty test left out
BoundWhere_keepAll(collection, where) ==
    LET whereData == [i \in 1..Len(where) |-> <<where[i].column, " = ?">>]
        whereQuery == Join(whereData, <<" AND ">>)
    IN  [text |-> IF Len(whereQuery) > 0 THEN <<" WHERE ">> \o whereQuery ELSE whereQuery,
         params |-> ValuesOf(where),
         columns |-> Columns(where)]

\* ' WHERE a = ? AND b = ?' of find and destroy, '' when nothing is kept
BoundWhere(collection, where) ==
    LET kept == KeptEntries(collection, where)
        whereData == [i \in 1..Len(kept) |-> <<kept[i].column, " = ?">>]
        whereQuery == Join(whereData, <<" AND ">>)
    IN  [text |-> IF Len(whereQuery) > 0 THEN <<" WHERE ">> \o whereQuery ELSE whereQuery,
         params |-> ValuesOf(kept),
         columns |-> Columns(kept)]

\* adapter.find __FIND__
FindSql(collection, options) ==
    LET selectQuery == <<"SELECT ">> \o getSelectAttributes(collection)
        fromQuery == <<" FROM ", collection.tableName>>
        limitQuery == IF ~isEmpty(options.limit)
                      THEN <<" FETCH FIRST ">> \o LimitText(options.limit) \o <<" ROWS ONLY ">>
                      ELSE <<>>
        w == BoundWhere(collection, options.where)
        keptSort == KeptEntries(collection, options.sort)
        sortData == [i \in 1..Len(keptSort) |-> <<keptSort[i].column, " ">> \o keptSort[i].value]
        sortJoined == Join(sortData, <<", ">>)
        sortQuery == IF Len(sortJoined) > 0 THEN <<" ORDER BY ">> \o sortJoined ELSE sortJoined
    IN  [sql |-> selectQuery \o fromQuery \o w.text \o sortQuery \o limitQuery,
         params |-> w.params,
         columns |-> w.columns,
         literals |-> <<>>]

\* adapter.create __CREATE__
CreateSql(collection, values) ==
    LET selectQuery == getSelectAttributes(collection)
        kept == KeptEntries(collection, values)
        columns == [i \in 1..Len(kept) |-> <<kept[i].column>>]
        questions == [i \in 1..Len(kept) |-> InlineLiteral(kept[i].value)]
    IN  [sql |-> <<"SELECT ">> \o selectQuery
                    \o <<" FROM FINAL TABLE (INSERT INTO ", collection.tableName, " (">>
                    \o Join(columns, <<",">>) \o <<") VALUES (">>
                    \o Join(questions, <<",">>) \o <<"))">>,
         params |-> <<>>,
         columns |-> Columns(kept),
         literals |-> questions]

\* the SET entries chosen without the autoIncrement test
SetEntries_keepAutoIncrement(collection, values) ==
    LET Keep(e) == hasOwnProperty(collection.definition, e.column)
    IN  SelectSeq(values, Keep)

\* the values entries update keeps for its SET list
SetEntries(collection, values) ==
    LET Keep(e) == /\ hasOwnProperty(collection.definition, e.column)
                   /\ ~AttrOf(collection.definition, e.column).autoIncrement
    IN  SelectSeq(values, Keep)

\* adapter.update __UPDATE__
UpdateSql(collection, options, values) ==
    LET selectQuery == getSelectAttributes(collection)
        keptSet == SetEntries(collection, values)
        setData == [i \in 1..Len(keptSet) |->
                       <<keptSet[i].column, " = ">> \o InlineLiteral(keptSet[i].value)]
        setQuery == <<" SET ">> \o Join(setData, <<",">>)
        keptWhere == KeptEntries(collection, options.where)
        whereData == [i \in 1..Len(keptWhere) |->
                         <<keptWhere[i].column, " = ">> \o InlineLiteral(keptWhere[i].value)]
        whereJoined == Join(whereData, <<" AND ">>)
        whereQuery == IF Len(whereJoined) > 0 THEN <<" WHERE ">> \o whereJoined ELSE whereJoined
    IN  [sql |-> <<"SELECT ">> \o selectQuery
                    \o <<" FROM FINAL TABLE (UPDATE ", collection.tableName>>
                    \o setQuery \o whereQuery \o <<")">>,
         params |-> <<>>,
         columns |-> Columns(keptSet),
         literals |-> [i \in 1..Len(keptSet) |-> InlineLiteral(keptSet[i].value)]
                        \o [i \in 1..Len(keptWhere) |-> InlineLiteral(keptWhere[i].value)]]

\* adapter.destroy __DESTROY__
DestroySql(collection, options) ==
    LET w == BoundWhere(collection, options.where)
    IN  [sql |-> <<"DELETE FROM ", collection.tableName>> \o w.text,
         params |-> w.params,
         columns |-> w.columns,
         literals |-> <<>>]

\* the column clause adapter.define emits for one attribute
AttrQuery(attribute) ==
    LET attrType == getSqlType(attribute.type)
    IN  IF attribute.primaryKey
        THEN IF attribute.autoIncrement
             THEN <<attribute.name, " INTEGER GENERATED ALWAYS AS IDENTITY PRIMARY KEY">>
             ELSE <<attribute.name, " VARCHAR(255) NOT NULL PRIMARY KEY">>
        ELSE IF attrType = "VARCHAR"
             THEN <<attribute.name, " ", attrType, "(",
                    ToString(IF attribute.length # 0 THEN attribute.length ELSE 255), ")">>
             ELSE <<attribute.name, " ", attrType>>

\* adapter.define: the CREATE TABLE text
DefineSql(collectionName, definition) ==
    <<"CREATE TABLE ", collectionName, " ", "(">>
        \o Join([i \in 1..Len(definition) |-> AttrQuery(definition[i])], <<",">>)
        \o <<")">>

\* adapter.describe: the catalog query
DescribeSql(collectionName) ==
    <<"SELECT DISTINCT(NAME), COLTYPE, IDENTITY, KEYSEQ, NULLS FROM Sysibm.syscolumns WHERE tbname = ">>
        \o escape(<<collectionName>>)

\* adapter.drop dropTable: the DROP TABLE text
DropSql(tableName) == <<"DROP TABLE ", tableName>>

\* ------------------------------------------------------- values and errors
\* An error is a record with the driver's SQL state; NoErr is the null error.
Err(code) == [state |-> code]
NoErr == Err("none")
IdentityMissing == Err("IdentityMissing")
IdentityDuplicate == Err("IdentityDuplicate")
TableExists == "42S01"
TableNotFound == "42S02"
OtherState == "08001"
ClosedState == "08003"

\* A result is a tagged list of rows; a row is a sequence of strings.
Rows(rs) == [k |-> "rows", v |-> rs]
Undefined == [k |-> "undefined", v |-> <<>>]
NullResult == [k |-> "null", v |-> <<>>]
EmptyRows == Rows(<<>>)

Names == {"a", "b"}
\* the logical names the callers of each specification use
MainNames == {"a"}
\* what String(object) gives when an object is used as a property key
ObjectKey == "[object Object]"

\* ------------------------------------------------------ operation records
NoOptions == [where |-> <<>>, sort |-> <<>>, limit |-> NoLimit]
NoArgs == [query |-> <<>>, hasData |-> FALSE, data |-> <<>>, options |-> NoOptions,
           values |-> <<>>, relations |-> <<>>]

\* the closure of one call: its arguments, the connection object it captured
\* (var connection = me.connections[connectionName]) and what it has done
NewOp(kind, connectionName, conn, collectionName, args) ==
    [kind |-> kind, name |-> connectionName, conn |-> conn,
     coll |-> collectionName, args |-> args,
     handle |-> 0, cbs |-> <<>>, issued |-> <<>>, opens |-> 0, relOk |-> 0]

\* a caller that has called nothing yet
NoOp == NewOp("none", "", 0, "", NoArgs)

\* The callers: each awaits its operation's driver calls before it calls the
\* next one; operations of different callers are in flight together.
Callers == {"c1", "c2"}
CallerOrder == <<"c1", "c2">>

\* cb(err, result), remembering the driver report that caused it
Deliver(op, err, result, tag, out) ==
    [op EXCEPT !.cbs = Append(@, [err |-> err, result |-> result, tag |-> tag,
                                   drvErr |-> out.err, drvResult |-> out.result])]

\* the operation's record after it has handed a statement to the driver
Issued(op, tag, sql, handle) ==
    [op EXCEPT !.issued = Append(@, [tag |-> tag, sql |-> sql, handle |-> handle,
                                      relOk |-> op.relOk])]

\* ------------------------------------------------------------------ state
VARIABLES
    connections,  \* me.connections: logical name -> connection object (0: none)
    heap,         \* the connection objects ever created, by reference
    handles,      \* the driver handles ever opened: owner and open flag
    ops,          \* each caller's latest asynchronous call: its closure
    opens,        \* how many times the driver's open has been requested
    pending,      \* driver calls in flight: open requests and statements
    tables,       \* the tables that exist in the database
    lastSync,     \* outcome of the synchronous call that has just returned
    built         \* a request to the query builder and the statement it built

vars == <<connections, heap, handles, ops, opens, pending, tables, lastSync, built>>

\* ref: the connection object the call created or removed, 0 when none
SyncResult(op, name, cbs, threw, ref) ==
    [op |-> op, name |-> name, cbs |-> cbs, threw |-> threw, ref |-> ref]
NoSync == SyncResult("none", "", <<>>, FALSE, 0)
NoBuilt == [op |-> "none", done |-> FALSE, collection |-> CollectionsOf(DefA)["T"],
            where |-> <<>>, sort |-> <<>>, limit |-> NoLimit, values |-> <<>>,
            sql |-> <<>>, params |-> <<>>, columns |-> <<>>, literals |-> <<>>]

\* the database is external: the related tables exist already, the
\* collection's table is created by define
InitialTables == {RelationTables}

Init ==
    /\ connections = [n \in Names |-> 0]
    /\ heap = <<>>
    /\ handles = <<>>
    /\ ops = [k \in Callers |-> NoOp]
    /\ opens = 0
    /\ pending = {}
    /\ tables \in InitialTables
    /\ lastSync = NoSync
    /\ built = NoBuilt

\* me.connections[key]
Lookup(reg, key) == IF key \in DOMAIN reg THEN reg[key] ELSE 0

\* ----------------------------------------------------- registerConnection
Configs == [identity : Names \cup {""}, pool : BOOLEAN]
MainConfigs == {c \in Configs : c.identity \in MainNames \cup {""}}

\* registerConnection without the duplicate check: the entry is overwritten
registerConnection_overwrite(connection, collections) ==
    /\ IF connection.identity = ""
       THEN /\ lastSync' = SyncResult("registerConnection", connection.identity,
                                      <<IdentityMissing>>, FALSE, 0)
            /\ UNCHANGED <<connections, heap>>
       ELSE /\ Len(heap) < MaxRegs
            /\ heap' = Append(heap, [config |-> connection, collections |-> collections,
                                     pool |-> connection.pool, conn |-> 0])
            /\ connections' = [connections EXCEPT ![connection.identity] = Len(heap) + 1]
            /\ lastSync' = SyncResult("registerConnection", connection.identity,
                                      <<NoErr>>, FALSE, Len(heap) + 1)
    /\ UNCHANGED <<handles, ops, opens, pending, tables, built>>

registerConnection(connection, collections) ==
    /\ IF connection.identity = ""
       THEN /\ lastSync' = SyncResult("registerConnection", connection.identity,
                                      <<IdentityMissing>>, FALSE, 0)
            /\ UNCHANGED <<connections, heap>>
       ELSE IF connections[connection.identity] # 0
       THEN /\ lastSync' = SyncResult("registerConnection", connection.identity,
                                      <<IdentityDuplicate>>, FALSE, 0)
            /\ UNCHANGED <<connections, heap>>
       ELSE /\ Len(heap) < MaxRegs
            /\ heap' = Append(heap, [config |-> connection, collections |-> collections,
                                     pool |-> connection.pool, conn |-> 0])
            /\ connections' = [connections EXCEPT ![connection.identity] = Len(heap) + 1]
            /\ lastSync' = SyncResult("registerConnection", connection.identity,
                                      <<NoErr>>, FALSE, Len(heap) + 1)
    /\ UNCHANGED <<handles, ops, opens, pending, tables, built>>

\* ----------------------------------------------------------------- teardown
\* closeConnection of teardown on the registry reg and the handles hs; the
\* read of connection.conn throws when me.connections[connectionName] is
\* undefined.
closeConnection(reg, hs, connectionName) ==
    LET connection == Lookup(reg, connectionName)
    IN  IF connection = 0
        THEN [threw |-> TRUE, reg |-> reg, hs |-> hs]
        ELSE [threw |-> FALSE,
              reg |-> [reg EXCEPT ![connectionName] = 0],
              hs |-> IF heap[connection].conn # 0
                     THEN [hs EXCEPT ![heap[connection].conn].open = FALSE]
                     ELSE hs]

RECURSIVE EachClose(_, _, _)
\* _.each(me.connections, closeConnection): the callback receives the value
\* (the connection object) as its first argument, which closeConnection
\* uses as a property key
EachClose(reg, hs, todo) ==
    IF todo = {} THEN [threw |-> FALSE, reg |-> reg, hs |-> hs]
    ELSE LET n == CHOOSE x \in todo : TRUE
             r == closeConnection(reg, hs, ObjectKey)
         IN  IF r.threw THEN r ELSE EachClose(r.reg, r.hs, todo \ {n})

\* The caller never lets an operation race with teardown (spec.md section 5):
\* teardown is called when no driver call is in flight on the connections it
\* is about to close.
Quiescent(connectionName) ==
    \A p \in pending :
        IF connectionName = "" THEN FALSE
        ELSE ops[p.op].conn # connections[connectionName]

teardown(connectionName) ==
    LET r == IF connectionName # ""
             THEN closeConnection(connections, handles, connectionName)
             ELSE EachClose(connections, handles, {n \in Names : connections[n] # 0})
    IN  /\ connections' = r.reg
        /\ handles' = r.hs
        /\ lastSync' = SyncResult("teardown", connectionName,
                                  IF r.threw THEN <<>> ELSE <<NoErr>>, r.threw,
                                  IF r.threw THEN 0 ELSE Lookup(connections, connectionName))
        /\ UNCHANGED <<heap, ops, opens, pending, tables, built>>

\* ------------------------------------------------------ driver capability
OpenRequest(o) ==
    [type |-> "open", op |-> o, tag |-> "open", idx |-> 0,
     sql |-> <<>>, params |-> <<>>, handle |-> 0]

Statement(o, tag, idx, sql, params, handle) ==
    [type |-> "stmt", op |-> o, tag |-> tag, idx |-> idx,
     sql |-> sql, params |-> params, handle |-> handle]

\* what db2.open / pool.open may report
OpenOutcomes == {[err |-> NoErr], [err |-> Err(OtherState)]}

DataRows == {<<>>, << <<"1", "x">> >>}
CatalogRows == {<<>>,
                << <<"ID", "INTEGER ", "Y", "1", "N">>, <<"NAME", "VARCHAR ", "N", "0", "Y">> >>,
                << <<"QTY", "INTEGER", "N", "0", "N">> >>}

Failure(code) == [err |-> Err(code), result |-> Undefined, tables |-> tables]

\* what conn.query may report for the statement p, and the tables it leaves
QueryOutcomes(p) ==
    IF ~handles[p.handle].open THEN {Failure(ClosedState)}
    ELSE IF p.sql[1] = "DROP TABLE "
    THEN IF p.sql[2] \in tables
         THEN {[err |-> NoErr, result |-> EmptyRows, tables |-> tables \ {p.sql[2]}],
               Failure(OtherState)}
         ELSE {Failure(TableNotFound), Failure(OtherState)}
    ELSE IF p.sql[1] = "CREATE TABLE "
    THEN IF p.sql[2] \in tables
         THEN {Failure(TableExists), Failure(OtherState)}
         ELSE {[err |-> NoErr, result |-> EmptyRows, tables |-> tables \cup {p.sql[2]}],
               Failure(OtherState)}
    ELSE {[err |-> NoErr, result |-> Rows(rs), tables |-> tables] :
             rs \in IF ops[p.op].kind = "describe" THEN CatalogRows ELSE DataRows}
         \cup {Failure(OtherState)}

\* all driver calls of the caller's operation have called back
Finished(k) == ops[k].kind # "none" /\ \A p \in pending : p.op # k
IdleCallers == {k \in Callers : ops[k].kind = "none" \/ Finished(k)}
\* the first idle caller makes the next call
NextCaller ==
    CallerOrder[CHOOSE i \in 1..Len(CallerOrder) :
                   /\ CallerOrder[i] \in IdleCallers
                   /\ \A j \in 1..(i - 1) : CallerOrder[j] \notin IdleCallers]

\* the tail of every operation: pool.open or db2.open(connectionString,
\* operationCallback); the name must be registered or the call throws
Open(kind, connectionName, collectionName, args) ==
    /\ opens < MaxOpens
    /\ IdleCallers # {}
    /\ connections[connectionName] # 0
    /\ ops' = [ops EXCEPT ![NextCaller] =
                  [NewOp(kind, connectionName, connections[connectionName],
                         collectionName, args) EXCEPT !.opens = 1]]
    /\ opens' = opens + 1
    /\ pending' = pending \cup {OpenRequest(NextCaller)}
    /\ lastSync' = NoSync
    /\ UNCHANGED <<connections, heap, handles, tables, built>>

\* ------------------------------------------------------ public operations
RelationLists == {<<>>, <<"R1", "R2">>}
RawQueries == {<<"SELECT 1 FROM SYSIBM.SYSDUMMY1">>}
Entry(c, v) == [column |-> c, value |-> v]
CallOptions == {[where |-> <<Entry("id", <<"1">>), Entry("ghost", <<"2">>)>>,
                 sort |-> <<Entry("name", <<"DESC">>)>>, limit |-> NumLimit(2)]}
CallValues == {<<Entry("name", <<"x">>), Entry("ghost", <<"y">>)>>}

define(connectionName, collectionName, definition) ==
    Open("define", connectionName, collectionName,
         [NoArgs EXCEPT !.query = DefineSql(collectionName, definition)])

describe(connectionName, collectionName) ==
    Open("describe", connectionName, collectionName,
         [NoArgs EXCEPT !.query = DescribeSql(collectionName)])

drop(connectionName, collectionName, relations) ==
    Open("drop", connectionName, collectionName, [NoArgs EXCEPT !.relations = relations])

query(connectionName, collectionName, sql, hasData, data) ==
    Open("query", connectionName, collectionName,
         [NoArgs EXCEPT !.query = sql, !.hasData = hasData, !.data = data])

find(connectionName, collectionName, options) ==
    Open("find", connectionName, collectionName, [NoArgs EXCEPT !.options = options])

create(connectionName, collectionName, values) ==
    Open("create", connectionName, collectionName, [NoArgs EXCEPT !.values = values])

update(connectionName, collectionName, options, values) ==
    Open("update", connectionName, collectionName,
         [NoArgs EXCEPT !.options = options, !.values = values])

destroy(connectionName, collectionName, options) ==
    Open("destroy", connectionName, collectionName, [NoArgs EXCEPT !.options = options])

\* --------------------------------------------- after open: __DROP__ etc.
\* __DROP__: async.eachSeries starts the first relation's drop (or, with no
\* relation, the final callback's dropTable(collectionName)), and then the
\* statement of line 341 is issued at once; conn is connection.conn
DropStart(o, op, conn) ==
    LET rels == op.args.relations
        first == IF Len(rels) = 0
                 THEN Statement(o, "target", 0, DropSql(op.coll), <<>>, conn)
                 ELSE Statement(o, "relation", 1, DropSql(rels[1]), <<>>, conn)
        direct == Statement(o, "direct", 0, DropSql(op.coll),
                            [i \in 1..Len(rels) |-> <<rels[i]>>], conn)
    IN  [op |-> Issued(Issued(op, first.tag, first.sql, conn), direct.tag, direct.sql, conn),
         stmts |-> {first, direct}]

\* the statement __QUERY__, __FIND__, __CREATE__, __UPDATE__ or __DESTROY__
\* hands to connection.conn
BuiltFor(op) ==
    LET collection == heap[op.conn].collections[op.coll]
    IN  CASE op.kind = "find" -> FindSql(collection, op.args.options)
          [] op.kind = "create" -> CreateSql(collection, op.args.values)
          [] op.kind = "update" -> UpdateSql(collection, op.args.options, op.args.values)
          [] op.kind = "destroy" -> DestroySql(collection, op.args.options)
          [] OTHER -> [sql |-> op.args.query,
                       params |-> IF op.args.hasData THEN op.args.data ELSE <<>>,
                       columns |-> <<>>, literals |-> <<>>]

Start(o, op, conn) ==
    IF op.kind = "drop" THEN DropStart(o, op, conn)
    ELSE LET b == BuiltFor(op)
         IN  [op |-> Issued(op, "stmt", b.sql, conn),
              stmts |-> {Statement(o, "stmt", 0, b.sql, b.params, conn)}]

\* operationCallback(err, conn) of every operation
operationCallback(p, out) ==
    /\ p \in pending
    /\ p.type = "open"
    /\ LET o == p.op
           op == ops[o]
       IN  IF out.err # NoErr
           THEN /\ ops' = [ops EXCEPT ![o] = Deliver(op, out.err, Undefined, "open",
                                                     [err |-> out.err, result |-> Undefined])]
                /\ pending' = pending \ {p}
                /\ UNCHANGED <<heap, handles>>
           ELSE LET h == Len(handles) + 1
                    started == Start(o, [op EXCEPT !.handle = h], h)
                IN  /\ handles' = Append(handles, [owner |-> op.conn, open |-> TRUE,
                                                   pooled |-> heap[op.conn].pool])
                    /\ heap' = [heap EXCEPT ![op.conn].conn = h]
                    /\ ops' = [ops EXCEPT ![o] = started.op]
                    /\ pending' = (pending \ {p}) \cup started.stmts
    /\ lastSync' = NoSync
    /\ UNCHANGED <<connections, opens, tables, built>>

\* ------------------------------------------------------ statement callbacks
NoStmts == {}

\* __QUERY__ callback: if (err) cb(err); else cb(null, records)
queryCallback(op, tag, out) ==
    IF out.err # NoErr THEN Deliver(op, out.err, Undefined, tag, out)
    ELSE Deliver(op, NoErr, out.result, tag, out)

\* define's callback returning every error, the 42S01 one included
defineCallback_noRecovery(op, tag, out) ==
    IF out.err # NoErr THEN Deliver(op, out.err, Undefined, tag, out)
    ELSE Deliver(op, NoErr, out.result, tag, out)

\* the callback adapter.define hands to adapter.query
defineCallback(op, tag, out) ==
    IF out.err # NoErr
    THEN IF out.err.state # TableExists THEN Deliver(op, out.err, Undefined, tag, out)
         ELSE Deliver(op, NoErr, EmptyRows, tag, out)
    ELSE Deliver(op, NoErr, out.result, tag, out)

\* attr.COLTYPE.trim()
Trim(coltype) ==
    CASE coltype = "INTEGER " -> "INTEGER"
      [] coltype = "VARCHAR " -> "VARCHAR"
      [] OTHER -> coltype

\* the attribute adapter.describe reconstructs from one catalog row
\* <<NAME, COLTYPE, IDENTITY, KEYSEQ, NULLS>>
DescribeAttribute(attr) ==
    LET type == typeMap(Trim(attr[2]))
    IN  IF attr[3] = "Y" /\ attr[4] # "0" /\ attr[5] = "N" /\ type = "integer"
        THEN <<attr[1], type, "primaryKey", "autoIncrement", "unique">>
        ELSE <<attr[1], type>>

\* the callback adapter.describe hands to adapter.query
describeCallback(op, tag, out) ==
    IF out.err # NoErr THEN Deliver(op, out.err, Undefined, tag, out)
    ELSE IF Len(out.result.v) = 0 THEN Deliver(op, NoErr, NullResult, tag, out)
    ELSE Deliver(op, NoErr,
                 [k |-> "attrs",
                  v |-> [i \in 1..Len(out.result.v) |-> DescribeAttribute(out.result.v[i])]],
                 tag, out)

\* find and destroy hand cb itself to conn.query
directCallback(op, tag, out) == Deliver(op, out.err, out.result, tag, out)

\* results[0]
FirstRow(result) ==
    IF Len(result.v) = 0 THEN Undefined ELSE [k |-> "row", v |-> <<result.v[1]>>]

\* create's callback dropping the error: cb(null, undefined)
createCallback_swallow(op, tag, out) ==
    IF out.err # NoErr THEN Deliver(op, NoErr, Undefined, tag, out)
    ELSE Deliver(op, NoErr, FirstRow(out.result), tag, out)

\* create and update: if (err) cb(err); else cb(null, results[0])
createCallback(op, tag, out) ==
    IF out.err # NoErr THEN Deliver(op, out.err, Undefined, tag, out)
    ELSE Deliver(op, NoErr, FirstRow(out.result), tag, out)

\* passCallback testing for the wrong SQL state (42S01 in place of 42S02)
passCallback_wrongState(op, tag, out) ==
    IF out.err # NoErr
    THEN IF out.err.state # TableExists THEN Deliver(op, out.err, Undefined, tag, out)
         ELSE Deliver(op, NoErr, EmptyRows, tag, out)
    ELSE Deliver(op, NoErr, out.result, tag, out)

\* passCallback of adapter.drop
passCallback(op, tag, out) ==
    IF out.err # NoErr
    THEN IF out.err.state # TableNotFound THEN Deliver(op, out.err, Undefined, tag, out)
         ELSE Deliver(op, NoErr, EmptyRows, tag, out)
    ELSE Deliver(op, NoErr, out.result, tag, out)

\* next of async.eachSeries for relation number idx, then the final callback
\* when the list is exhausted or the drop failed; conn is connection.conn now
eachSeriesNext(o, op, idx, out, conn) ==
    LET rels == op.args.relations
    IN  IF out.err # NoErr
        THEN [op |-> Deliver(op, out.err, Undefined, "relation", out), stmts |-> NoStmts]
        ELSE LET done == [op EXCEPT !.relOk = @ + 1]
                 nxt == IF idx < Len(rels)
                        THEN Statement(o, "relation", idx + 1, DropSql(rels[idx + 1]), <<>>, conn)
                        ELSE Statement(o, "target", 0, DropSql(op.coll), <<>>, conn)
             IN  [op |-> Issued(done, nxt.tag, nxt.sql, conn), stmts |-> {nxt}]

\* the callback the driver invokes for the statement p
Complete(p, op, out, conn) ==
    CASE op.kind = "drop" /\ p.tag = "relation" -> eachSeriesNext(p.op, op, p.idx, out, conn)
      [] op.kind = "drop" /\ p.tag # "relation" ->
            [op |-> passCallback(op, p.tag, out), stmts |-> NoStmts]
      [] op.kind = "query" -> [op |-> queryCallback(op, p.tag, out), stmts |-> NoStmts]
      [] op.kind = "define" -> [op |-> defineCallback(op, p.tag, out), stmts |-> NoStmts]
      [] op.kind = "describe" -> [op |-> describeCallback(op, p.tag, out), stmts |-> NoStmts]
      [] op.kind \in {"find", "destroy"} ->
            [op |-> directCallback(op, p.tag, out), stmts |-> NoStmts]
      [] op.kind \in {"create", "update"} ->
            [op |-> createCallback(op, p.tag, out), stmts |-> NoStmts]

\* conn.query completes: the driver runs the statement and calls back
statementCallback(p, out) ==
    /\ p \in pending
    /\ p.type = "stmt"
    /\ out \in QueryOutcomes(p)
    /\ LET r == Complete(p, ops[p.op], [err |-> out.err, result |-> out.result],
                         heap[ops[p.op].conn].conn)
       IN  /\ ops' = [ops EXCEPT ![p.op] = r.op]
           /\ pending' = (pending \ {p}) \cup r.stmts
    /\ tables' = out.tables
    /\ lastSync' = NoSync
    /\ UNCHANGED <<connections, heap, handles, opens, built>>

\* ------------------------------------------------------------ specification
OpenRequests == {p \in pending : p.type = "open"}
Statements == {p \in pending : p.type = "stmt"}

Next ==
    \/ \E c \in MainConfigs, cs \in CollectionSets : registerConnection(c, cs)
    \/ \E n \in MainNames \cup {""} : Quiescent(n) /\ teardown(n)
    \/ \E n \in MainNames, c \in CollectionNames, d \in {DefA} : define(n, c, d)
    \/ \E n \in MainNames, c \in CollectionNames : describe(n, c)
    \/ \E n \in MainNames, c \in CollectionNames, rels \in RelationLists : drop(n, c, rels)
    \/ \E n \in MainNames, c \in CollectionNames, q \in RawQueries, hd \in {TRUE} :
          query(n, c, q, hd, IF hd THEN << <<"1">> >> ELSE <<>>)
    \/ \E n \in MainNames, c \in CollectionNames, o \in CallOptions : find(n, c, o)
    \/ \E n \in MainNames, c \in CollectionNames, v \in CallValues : create(n, c, v)
    \/ \E n \in MainNames, c \in CollectionNames, o \in CallOptions, v \in CallValues :
          update(n, c, o, v)
    \/ \E n \in MainNames, c \in CollectionNames, o \in CallOptions : destroy(n, c, o)
    \/ \E p \in OpenRequests, out \in OpenOutcomes : operationCallback(p, out)
    \/ \E p \in Statements : \E out \in QueryOutcomes(p) : statementCallback(p, out)

Spec == Init /\ [][Next]_vars

\* ---------------------------------------- specification of the operations
\* one registered connection and the eight asynchronous operations on it
NextOps ==
    \/ \E c \in MainConfigs, cs \in CollectionSets : registerConnection(c, cs)
    \/ \E n \in MainNames, c \in CollectionNames, d \in {DefA} : define(n, c, d)
    \/ \E n \in MainNames, c \in CollectionNames : describe(n, c)
    \/ \E n \in MainNames, c \in CollectionNames, rels \in RelationLists : drop(n, c, rels)
    \/ \E n \in MainNames, c \in CollectionNames, q \in RawQueries, hd \in {TRUE} :
          query(n, c, q, hd, IF hd THEN << <<"1">> >> ELSE <<>>)
    \/ \E n \in MainNames, c \in CollectionNames, o \in CallOptions : find(n, c, o)
    \/ \E n \in MainNames, c \in CollectionNames, v \in CallValues : create(n, c, v)
    \/ \E n \in MainNames, c \in CollectionNames, o \in CallOptions, v \in CallValues :
          update(n, c, o, v)
    \/ \E n \in MainNames, c \in CollectionNames, o \in CallOptions : destroy(n, c, o)
    \/ \E p \in OpenRequests, out \in OpenOutcomes : operationCallback(p, out)
    \/ \E p \in Statements : \E out \in QueryOutcomes(p) : statementCallback(p, out)

SpecOps == Init /\ [][NextOps]_vars

\* ------------------------------------------ specification of the registry
\* a host that registers and tears down two logical names and sends raw
\* queries (which give the connections a cached handle), one call at a time
NextRegistry ==
    \/ pending = {} /\ \E c \in Configs, cs \in CollectionSets : registerConnection(c, cs)
    \/ pending = {} /\ \E n \in Names \cup {""} : Quiescent(n) /\ teardown(n)
    \/ pending = {} /\ \E n \in Names, c \in CollectionNames, q \in RawQueries :
                          query(n, c, q, FALSE, <<>>)
    \/ \E p \in OpenRequests, out \in OpenOutcomes : operationCallback(p, out)
    \/ \E p \in Statements : \E out \in QueryOutcomes(p) : statementCallback(p, out)

SpecRegistry == Init /\ [][NextRegistry]_vars

\* ------------------------------------- specification of the query builder
MaxValueLen == 2
MaxLimit == 2

RECURSIVE TextsUpTo(_, _)
\* the texts of at most n chunks over the alphabet
TextsUpTo(alphabet, n) ==
    IF n = 0 THEN {<<>>}
    ELSE LET shorter == TextsUpTo(alphabet, n - 1)
         IN  shorter \cup {Append(t, c) : t \in shorter, c \in alphabet}

BuildColumns == {"id", "name", "ghost"}
ValueTexts == TextsUpTo({"a", Q}, MaxValueLen)
WhereTexts == {<<"1">>, <<Q, Q>>}

\* the ordered maps of at most two entries over the columns and the texts
MapsOver(columns, texts) ==
    {<<>>} \cup {<<Entry(c, v)>> : c \in columns, v \in texts}
           \cup {m \in {<<Entry(c1, v1), Entry(c2, v2)>> :
                            c1 \in columns, c2 \in columns, v1 \in texts, v2 \in texts} :
                    m[1].column # m[2].column}

ValueMaps == MapsOver(BuildColumns, ValueTexts)
WhereMaps == MapsOver(BuildColumns, WhereTexts)
SortMaps == {<<>>, <<Entry("name", <<"DESC">>)>>,
             <<Entry("ghost", <<"ASC">>), Entry("id", <<"ASC">>)>>}
Limits == {NoLimit, StrLimit(<<>>), StrLimit(<<"5">>)} \cup {NumLimit(n) : n \in 0..MaxLimit}
BuildCollections == {CollectionsOf(d)["T"] : d \in Definitions}

\* a request to the builder: the operation and its arguments
Request(op, collection, options, values) ==
    [op |-> op, done |-> FALSE, collection |-> collection, where |-> options.where,
     sort |-> options.sort, limit |-> options.limit, values |-> values,
     sql |-> <<>>, params |-> <<>>, columns |-> <<>>, literals |-> <<>>]

Requests ==
    {Request("find", c, [where |-> w, sort |-> st, limit |-> l], <<>>) :
        c \in BuildCollections, w \in WhereMaps, st \in SortMaps, l \in Limits}
    \cup {Request("create", c, NoOptions, v) : c \in BuildCollections, v \in ValueMaps}
    \cup {Request("update", c, [where |-> w, sort |-> <<>>, limit |-> NoLimit], v) :
            c \in BuildCollections, w \in WhereMaps, v \in ValueMaps}
    \cup {Request("destroy", c, [where |-> w, sort |-> <<>>, limit |-> NoLimit], <<>>) :
            c \in BuildCollections, w \in WhereMaps}

OptionsOf(r) == [where |-> r.where, sort |-> r.sort, limit |-> r.limit]

\* the request answered with what the builder produced
Answer(r, b) ==
    [r EXCEPT !.done = TRUE, !.sql = b.sql, !.params = b.params,
              !.columns = b.columns, !.literals = b.literals]

InitBuild ==
    /\ connections = [n \in Names |-> 0]
    /\ heap = <<>>
    /\ handles = <<>>
    /\ ops = [k \in Callers |-> NoOp]
    /\ opens = 0
    /\ pending = {}
    /\ tables = {}
    /\ lastSync = NoSync
    /\ built \in Requests

BuildFind ==
    /\ built.op = "find" /\ ~built.done
    /\ built' = Answer(built, FindSql(built.collection, OptionsOf(built)))
    /\ UNCHANGED <<connections, heap, handles, ops, opens, pending, tables, lastSync>>

BuildCreate ==
    /\ built.op = "create" /\ ~built.done
    /\ built' = Answer(built, CreateSql(built.collection, built.values))
    /\ UNCHANGED <<connections, heap, handles, ops, opens, pending, tables, lastSync>>

BuildUpdate ==
    /\ built.op = "update" /\ ~built.done
    /\ built' = Answer(built, UpdateSql(built.collection, OptionsOf(built), built.values))
    /\ UNCHANGED <<connections, heap, handles, ops, opens, pending, tables, lastSync>>

BuildDestroy ==
    /\ built.op = "destroy" /\ ~built.done
    /\ built' = Answer(built, DestroySql(built.collection, OptionsOf(built)))
    /\ UNCHANGED <<connections, heap, handles, ops, opens, pending, tables, lastSync>>

NextBuild == BuildFind \/ BuildCreate \/ BuildUpdate \/ BuildDestroy

SpecBuild == InitBuild /\ [][NextBuild]_vars

\* ------------------------------------------------------------- properties
Slots == {k \in Callers : ops[k].kind # "none"}
Deliveries(o) == {ops[o].cbs[i] : i \in 1..Len(ops[o].cbs)}
OpenHandlesOf(c) == {h \in 1..Len(handles) : handles[h].owner = c /\ handles[h].open}

EndsWith(text, suffix) ==
    /\ Len(suffix) <= Len(text)
    /\ SubSeq(text, Len(text) - Len(suffix) + 1, Len(text)) = suffix

RECURSIVE Doubled(_)
\* the text with every single quote doubled
Doubled(w) ==
    IF Len(w) = 0 THEN <<>>
    ELSE (IF Head(w) = Q THEN <<Q, Q>> ELSE <<Head(w)>>) \o Doubled(Tail(w))

EscapedLiteral(v) == <<Q>> \o Doubled(v) \o <<Q>>

\* the entries whose column is an attribute of the collection
InDefinition(collection, entries) ==
    LET Known(e) == e.column \in {collection.definition[i].name :
                                     i \in 1..Len(collection.definition)}
    IN  SelectSeq(entries, Known)

\* C1: with no pool configured, at most one opened and not closed handle
\* exists for a registered connection at any moment (open is invoked by the
\* first operation only, later operations reuse the cached handle).
C1_SingleHandle ==
    \A c \in 1..Len(heap) : ~heap[c].pool => Cardinality(OpenHandlesOf(c)) <= 1

\* C2: every call of a public operation invokes the caller's callback exactly
\* once: never twice, and once all its driver calls have called back (or the
\* synchronous call has returned) the callback has been invoked.
C2_ExactlyOnce ==
    /\ \A o \in Slots : /\ Len(ops[o].cbs) <= 1
                        /\ Finished(o) => Len(ops[o].cbs) = 1
    /\ lastSync.op # "none" => Len(lastSync.cbs) = 1 /\ ~lastSync.threw

\* C3: drop issues the relations' DROP TABLE statements in list order, each
\* after the previous one succeeded, and every DROP TABLE of the target
\* collection only after all relations' drops have completed successfully.
C3_TargetAfterRelations ==
    \A o \in Slots : ops[o].kind = "drop" =>
        \A i \in 1..Len(ops[o].issued) :
            LET s == ops[o].issued[i]
                rels == ops[o].args.relations
            IN  /\ s.tag = "relation" =>
                      /\ s.relOk < Len(rels)
                      /\ s.sql = DropSql(rels[s.relOk + 1])
                /\ s.tag # "relation" =>
                      /\ s.sql = DropSql(ops[o].coll)
                      /\ s.relOk = Len(rels)

\* C4: teardown(name) closes the cached handle of the named connection and
\* removes its entry; teardown without a name does so for every registered
\* connection and leaves the registry empty; the callback gets no error.
C4_Teardown ==
    lastSync.op = "teardown" =>
        /\ lastSync.name = "" =>
              /\ ~lastSync.threw
              /\ lastSync.cbs = <<NoErr>>
              /\ \A n \in Names : connections[n] = 0
        /\ (lastSync.name # "" /\ ~lastSync.threw) =>
              /\ lastSync.cbs = <<NoErr>>
              /\ connections[lastSync.name] = 0
              /\ heap[lastSync.ref].conn # 0 => ~handles[heap[lastSync.ref].conn].open

\* C5: when the driver fails a DROP TABLE of the target collection with state
\* 42S02, drop reports no error and an empty row list; a drop error with any
\* other state is reported as that error.
C5_DropNotFound ==
    \A o \in Slots : ops[o].kind = "drop" =>
        \A d \in Deliveries(o) :
            /\ (d.tag \in {"target", "direct"} /\ d.drvErr.state = TableNotFound) =>
                  d.err = NoErr /\ d.result = EmptyRows
            /\ (d.drvErr # NoErr /\ d.drvErr.state # TableNotFound) => d.err = d.drvErr

C5_Witness ==
    \E o \in Slots :
        /\ ops[o].kind = "drop"
        /\ \E d \in Deliveries(o) :
              /\ d.tag = "target"
              /\ d.drvErr.state = TableNotFound
              /\ d.err = NoErr
              /\ d.result = EmptyRows

\* C6: define calls back once; a CREATE TABLE that fails with state 42S01
\* (the table exists, as for a second identical define) is reported as
\* success with an empty row list, any other CREATE TABLE error as that error.
C6_DefineIdempotent ==
    \A o \in Slots : ops[o].kind = "define" =>
        /\ Len(ops[o].cbs) <= 1
        /\ Finished(o) => Len(ops[o].cbs) = 1
        /\ \A d \in Deliveries(o) :
              /\ d.drvErr.state = TableExists => d.err = NoErr /\ d.result = EmptyRows
              /\ (d.drvErr # NoErr /\ d.drvErr.state # TableExists) => d.err = d.drvErr
              /\ d.drvErr = NoErr => d.err = NoErr /\ d.result = d.drvResult

\* two identical defines, the first created the table, the second hit 42S01
C6_Witness ==
    \E k1 \in Slots, k2 \in Slots :
        /\ ops[k1].kind = "define" /\ ops[k2].kind = "define"
        /\ k1 # k2
        /\ ops[k1].name = ops[k2].name /\ ops[k1].coll = ops[k2].coll
        /\ ops[k1].args = ops[k2].args
        /\ Len(ops[k1].cbs) = 1 /\ Len(ops[k2].cbs) = 1
        /\ ops[k1].cbs[1].drvErr = NoErr /\ ops[k1].cbs[1].err = NoErr
        /\ ops[k2].cbs[1].drvErr.state = TableExists
        /\ ops[k2].cbs[1].err = NoErr /\ ops[k2].cbs[1].result = EmptyRows

\* C7: a registration with no identity is rejected with IdentityMissing, one
\* whose identity is registered with IdentityDuplicate; a rejected
\* registration changes no connection object and no registry entry, and a
\* registered name keeps its entry (config, collections, pool) until teardown.
C7_RegistrationKeepsEntry ==
    [][ /\ \A n \in Names :
              (connections[n] # 0 /\ connections'[n] # 0) =>
                  /\ connections'[n] = connections[n]
                  /\ heap'[connections[n]].config = heap[connections[n]].config
                  /\ heap'[connections[n]].collections = heap[connections[n]].collections
                  /\ heap'[connections[n]].pool = heap[connections[n]].pool
        /\ (lastSync' # lastSync /\ lastSync'.op = "registerConnection") =>
              /\ lastSync'.name = "" => lastSync'.cbs = <<IdentityMissing>>
              /\ (lastSync'.name # "" /\ connections[lastSync'.name] # 0) =>
                    lastSync'.cbs = <<IdentityDuplicate>>
              /\ lastSync'.cbs # <<NoErr>> => (connections' = connections /\ heap' = heap)
      ]_vars

\* a duplicate registration was rejected for a name whose connection has a
\* cached handle
C7_Witness ==
    /\ lastSync.op = "registerConnection"
    /\ lastSync.cbs = <<IdentityDuplicate>>
    /\ connections[lastSync.name] # 0
    /\ heap[connections[lastSync.name]].conn # 0

\* the driver errors an operation recovers from
Recovered(o, d) ==
    \/ ops[o].kind = "define" /\ d.drvErr.state = TableExists
    \/ ops[o].kind = "drop" /\ d.drvErr.state = TableNotFound

\* C8: a driver error that is not one of the two recovered states reaches the
\* caller's callback as the same error value; no operation opens twice or
\* issues a statement again; a failed open leaves no statement issued.
C8_ErrorsPropagate ==
    \A o \in Slots :
        /\ \A d \in Deliveries(o) :
              /\ (d.drvErr # NoErr /\ ~Recovered(o, d)) => d.err = d.drvErr
              /\ d.tag = "open" => (ops[o].issued = <<>> /\ ops[o].handle = 0)
        /\ ops[o].opens = 1
        /\ ops[o].kind # "drop" => Len(ops[o].issued) <= 1
        /\ ops[o].kind = "drop" => Len(ops[o].issued) <= Len(ops[o].args.relations) + 2
        /\ (Finished(o) /\ ops[o].kind # "drop") => Len(ops[o].cbs) = 1

\* one operation's open failed, and the statement of a create failed
C8_Witness ==
    \E o1 \in Slots, o2 \in Slots :
        /\ \E d \in Deliveries(o1) : d.tag = "open" /\ d.err = Err(OtherState)
        /\ ops[o1].issued = <<>>
        /\ ops[o2].kind = "create"
        /\ \E d \in Deliveries(o2) : d.tag = "stmt" /\ d.err = Err(OtherState)

\* C9: find with a numeric limit n > 0 ends its SQL with FETCH FIRST n ROWS
\* ONLY (after WHERE and ORDER BY); without a limit the clause is absent.
C9_LimitClause ==
    (built.op = "find" /\ built.done) =>
        /\ (built.limit.k = "number" /\ built.limit.n > 0) =>
              EndsWith(built.sql, <<" FETCH FIRST ", ToString(built.limit.n), " ROWS ONLY ">>)
        /\ built.limit.k = "undefined" =>
              \A i \in 1..Len(built.sql) : built.sql[i] # " FETCH FIRST "

\* C10: create inserts exactly the values entries whose column is in the
\* definition, as many literals as columns in the same order, and every
\* literal create and update inline is the value in single quotes with each
\* single quote inside it doubled.
C10_EscapedLiterals ==
    /\ (built.op = "create" /\ built.done) =>
          LET kept == InDefinition(built.collection, built.values)
          IN  /\ built.columns = Columns(kept)
              /\ Len(built.literals) = Len(built.columns)
              /\ \A i \in 1..Len(kept) : built.literals[i] = EscapedLiteral(kept[i].value)
    /\ (built.op = "update" /\ built.done) =>
          \A i \in 1..Len(built.literals) :
              \E e \in {built.values[j] : j \in 1..Len(built.values)}
                       \cup {built.where[j] : j \in 1..Len(built.where)} :
                  built.literals[i] = EscapedLiteral(e.value)

\* the text holds the part as a run of consecutive chunks
Contains(text, part) ==
    \E i \in 0..(Len(text) - Len(part)) : SubSeq(text, i + 1, i + Len(part)) = part

\* how many chunks of the text equal the chunk
Count(text, chunk) == Cardinality({i \in 1..Len(text) : text[i] = chunk})

RECURSIVE Placeholders(_)
\* c1 = ? AND c2 = ? ... for the entries, in their order
Placeholders(entries) ==
    IF Len(entries) = 0 THEN <<>>
    ELSE IF Len(entries) = 1 THEN <<entries[1].column, " = ?">>
    ELSE <<entries[1].column, " = ?", " AND ">> \o Placeholders(Tail(entries))

\* C11: find and destroy build WHERE from the where entries whose column is
\* in the definition only: one "column = ?" per kept entry in map order, the
\* parameter list holding the kept values in the same order; with no kept
\* where (sort) entry the statement has no WHERE (ORDER BY) keyword.
C11_BoundWhere ==
    (built.op \in {"find", "destroy"} /\ built.done) =>
        LET kept == InDefinition(built.collection, built.where)
            keptSort == InDefinition(built.collection, built.sort)
        IN  /\ built.params = [i \in 1..Len(kept) |-> kept[i].value]
            /\ Count(built.sql, " = ?") = Len(kept)
            /\ Count(built.sql, " WHERE ") = (IF Len(kept) > 0 THEN 1 ELSE 0)
            /\ Len(kept) > 0 => Contains(built.sql, <<" WHERE ">> \o Placeholders(kept))
            /\ Count(built.sql, " ORDER BY ") = (IF Len(keptSort) > 0 THEN 1 ELSE 0)
            /\ built.op = "destroy" =>
                  built.sql = <<"DELETE FROM ", built.collection.tableName>>
                                \o (IF Len(kept) > 0 THEN <<" WHERE ">> \o Placeholders(kept)
                                                     ELSE <<>>)

\* a find whose where map has a column of the definition and one outside it
C11_Witness ==
    /\ built.op = "find" /\ built.done
    /\ Len(built.where) = 2
    /\ Len(InDefinition(built.collection, built.where)) = 1
    /\ Len(built.params) = 1
    /\ Count(built.sql, " WHERE ") = 1

\* the chunks of an UPDATE statement between SET and WHERE (or the end)
SetList(sql) ==
    LET from == FirstIndex(sql, " SET ")
        to == IF FirstIndex(sql, " WHERE ") # 0 THEN FirstIndex(sql, " WHERE ") ELSE Len(sql)
    IN  SubSeq(sql, from + 1, to - 1)

\* the columns a SET list assigns: the chunks followed by " = "
AssignedColumns(list) == {list[i] : i \in {j \in 1..(Len(list) - 1) : list[j + 1] = " = "}}

\* the columns of the definition flagged autoIncrement
AutoIncrementColumns(collection) ==
    {collection.definition[i].name :
        i \in {j \in 1..Len(collection.definition) : collection.definition[j].autoIncrement}}

\* C12: the SET list of the statement update builds assigns no column flagged
\* autoIncrement, whatever the values map holds, and assigns every other
\* column of the values map that is in the definition.
C12_NoAutoIncrementInSet ==
    (built.op = "update" /\ built.done) =>
        LET assigned == AssignedColumns(SetList(built.sql))
            kept == InDefinition(built.collection, built.values)
        IN  /\ assigned \cap AutoIncrementColumns(built.collection) = {}
            /\ assigned = {kept[i].column : i \in 1..Len(kept)}
                              \ AutoIncrementColumns(built.collection)

\* an update whose values map names the autoIncrement column and another
\* column of the definition: only the other one is assigned
C12_Witness ==
    /\ built.op = "update" /\ built.done
    /\ \E i \in 1..Len(built.values) :
          built.values[i].column \in AutoIncrementColumns(built.collection)
    /\ AssignedColumns(SetList(built.sql)) = {"name"}

\* C13: with several operations of one connection name in flight, every
\* statement an operation issues (each DROP TABLE of a drop with relations
\* included) runs on the handle this operation's own open returned, never on
\* a handle another operation left in the shared cached conn field.
C13_OwnHandle ==
    \A o \in Slots :
        \A i \in 1..Len(ops[o].issued) : ops[o].issued[i].handle = ops[o].handle

====
